---- MODULE Spec2Model ----
(***************************************************************************)
(* Model of nbind's loader (src/src/nbind.ts): find / findCompiledModule   *)
(* locate a compiled binary, init / initNode / initAsm load it into a      *)
(* Binding.  One action is one turn of the JavaScript event loop: a call   *)
(* of find or init runs to completion (with every callback it makes), and  *)
(* an asm.js artifact may later fire its onRuntimeInitialized hook.        *)
(***************************************************************************)
EXTENDS Naturals, Sequences, FiniteSets, TLC

\* ------------------------------------------------------------------ bounds
MaxFiles == 2      \* at most this many resolvable paths in the file system
MaxFires == 1      \* an artifact fires its runtime-ready hook in at most this many later turns
MaxTurns == 1      \* at most this many later mutations of an exports mapping

\* ------------------------------------------------------------------ paths
\* A path is a sequence of segments.  "/" as first segment marks an
\* absolute path, "." the current directory.
Cwd == <<"/", "cwd">>
NoPath == <<>>

\* The basePath arguments tried: one with each registry extension; a call
\* that gives none searches the working directory (line 204).
Roots == { <<".", "r.node">>, <<".", "r.js">> }

\* path.extname on the segment vocabulary of the model (line 139).
ExtName(p) ==
    LET base == IF Len(p) = 0 THEN "" ELSE p[Len(p)]
    IN  CASE base \in {"r.node", "nbind.node"} -> ".node"
          [] base \in {"r.js", "nbind.js", "index.js"} -> ".js"
          [] OTHER -> ""

\* path.dirname (line 276).
DirName(p) == IF Len(p) <= 1 THEN p ELSE SubSeq(p, 1, Len(p) - 1)

RECURSIVE Flatten(_)
Flatten(parts) ==
    IF parts = <<>> THEN <<>> ELSE Head(parts) \o Flatten(Tail(parts))

RECURSIVE DropDots(_)
DropDots(p) ==
    IF p = <<>> THEN <<>>
    ELSE IF Head(p) = "." THEN DropDots(Tail(p))
    ELSE <<Head(p)>> \o DropDots(Tail(p))

RECURSIVE LastAbsolute(_, _)
\* index of the last part that is absolute, 0 when none is
LastAbsolute(parts, i) ==
    IF i = 0 THEN 0
    ELSE IF parts[i] # <<>> /\ parts[i][1] = "/" THEN i
    ELSE LastAbsolute(parts, i - 1)

\* path.resolve(...parts) (lines 164, 276): the parts are joined right to
\* left until an absolute one is met, the working directory is prepended
\* when none is, and "." segments are normalised away.
PathResolve(parts) ==
    LET a == LastAbsolute(parts, Len(parts))
    IN  IF a = 0
        THEN Cwd \o DropDots(Flatten(parts))
        ELSE DropDots(Flatten(SubSeq(parts, a, Len(parts))))

\* ------------------------------------------------------------------ process
NodeVersion == "v6"      \* process.versions.node
Platform == "linux"      \* process.platform
Arch == "x64"            \* process.arch
CompiledDirEnv == ""     \* process.env['NODE_BINDINGS_COMPILED_DIR'], unset ("" is falsy)

\* ------------------------------------------------------------------ registry
\* The literal spec list of find (lines 205-206).
SpecList ==
    << [ext |-> ".node", name |-> "nbind.node", type |-> "node"],
       [ext |-> ".js",   name |-> "nbind.js",   type |-> "emcc"] >>

NumSpecs == Len(SpecList)

\* Mutant of makeModulePathList: the two manually compiled release
\* directories change places.
makeModulePathList_ReleaseFirst(root, name) ==
    << << root, <<name>> >>,
       << root, <<"build">>, <<name>> >>,
       << root, <<"build">>, <<"Debug">>, <<name>> >>,
       << root, <<"build">>, <<"Release">>, <<name>> >>,
       << root, <<"out">>, <<"Debug">>, <<name>> >>,
       << root, <<"Debug">>, <<name>> >>,
       << root, <<"Release">>, <<name>> >>,
       << root, <<"out">>, <<"Release">>, <<name>> >>,
       << root, <<"build">>, <<"default">>, <<name>> >>,
       << root, <<"compiled">>, <<NodeVersion>>, <<Platform>>, <<Arch>>,
          <<name>> >> >>

\* Mutant of makeModulePathList: build/Release is tried before build/Debug.
makeModulePathList_BuildReleaseFirst(root, name) ==
    << << root, <<name>> >>,
       << root, <<"build">>, <<name>> >>,
       << root, <<"build">>, <<"Release">>, <<name>> >>,
       << root, <<"build">>, <<"Debug">>, <<name>> >>,
       << root, <<"out">>, <<"Debug">>, <<name>> >>,
       << root, <<"Debug">>, <<name>> >>,
       << root, <<"out">>, <<"Release">>, <<name>> >>,
       << root, <<"Release">>, <<name>> >>,
       << root, <<"build">>, <<"default">>, <<name>> >>,
       << root, <<"compiled">>, <<NodeVersion>>, <<Platform>>, <<Arch>>,
          <<name>> >> >>

\* makeModulePathList (lines 97-129).
makeModulePathList(root, name) ==
    << << root, <<name>> >>,
       << root, <<"build">>, <<name>> >>,
       << root, <<"build">>, <<"Debug">>, <<name>> >>,
       << root, <<"build">>, <<"Release">>, <<name>> >>,
       << root, <<"out">>, <<"Debug">>, <<name>> >>,
       << root, <<"Debug">>, <<name>> >>,
       << root, <<"out">>, <<"Release">>, <<name>> >>,
       << root, <<"Release">>, <<name>> >>,
       << root, <<"build">>, <<"default">>, <<name>> >>,
       << root,
          <<IF CompiledDirEnv # "" THEN CompiledDirEnv ELSE "compiled">>,
          <<NodeVersion>>, <<Platform>>, <<Arch>>,
          <<name>> >> >>

NumTemplates == Len(makeModulePathList(<<>>, ""))

\* ------------------------------------------------------------------ values
\* Errors are records; NoErr is "no error" (null / normal return).
NoErr == [type |-> "none", message |-> <<>>, tries |-> <<>>]
Err(type) == [type |-> type, message |-> <<<<type>>>>, tries |-> <<>>]
LoadError == Err("Error loading addon")          \* line 310
RequireError == Err("require threw")             \* thrown by require (lines 297, 307)
CcallError == Err("nbind_init threw")            \* thrown by lib.ccall (line 285)
HookError == Err("onRuntimeInitialized threw")   \* thrown by the caller's hook (line 282)
CallbackError == Err("callback threw")           \* thrown by the caller's callback

\* new Error('Could not locate the bindings file. Tried:\n' + list.join('\n'))
\* with err.tries = list (lines 180-185).  The message is kept as its lines.
LocateError(resolvedList) ==
    [type |-> "Error",
     message |-> << <<"Could not locate the bindings file. Tried:">> >> \o resolvedList,
     tries |-> resolvedList]

\* A value stored under a key of an exports mapping.
V(tag) == [tag |-> tag, id |-> 0, orig |-> "", depth |-> 0]
NoMapping == [k \in {} |-> V("")]

\* What the caller may pass as lib (line 240): nothing, or a mapping with
\* plain data and the two hooks the asm.js branch reads.
Presets ==
    { [given |-> FALSE, map |-> NoMapping],
      [given |-> TRUE,
       map |-> [k \in {"a", "b", "locateFile", "onRuntimeInitialized"} |->
                  CASE k = "locateFile" -> V("userLocate")
                    [] k = "onRuntimeInitialized" -> V("userReady")
                    [] OTHER -> V(k \o " of preset")]] }

\* What a compiled addon exports.
AddonExports == [k \in {"b", "c"} |-> V(k \o " of module")]

\* What require() of the addon file may produce (line 307).
AddonKinds == {"object", "null", "function", "throws"}

\* What the caller's callback does: "none" is no callback given (rethrow,
\* lines 91-93, 201, 244), "ok" returns, "throws" raises whenever invoked.
CallbackKinds == {"none", "ok", "throws"}

\* A JavaScript value as require returns it.
Falsy(v) == v.type \in {"null", "undefined"}
TypeOf(v) == IF v.type = "null" THEN "object" ELSE v.type

\* ------------------------------------------------------------------ state
VARIABLES
    basePath,   \* the basePath argument of the calls (NoPath: none given)
    fs,         \* the file names require.resolve finds
    call,       \* per call of find/init: its arguments and findCompiledModule's locals
    bindings,   \* per call: the Binding object init created (binary, lib)
    cur,        \* currentBinding (line 81): 0 is undefined, else a call id
    heap,       \* the objects used as exports mappings, by object id
    modules,    \* require's module cache: path -> value
    asm,        \* the asm.js artifacts that were evaluated
    trace,      \* history: every resolution, load, hook and callback invocation
    turns       \* number of mutations made by the caller or the loader

vars == <<basePath, fs, call, bindings, cur, heap, modules, asm, trace, turns>>

\* The mutable program state, threaded through the operators of one turn.
State ==
    [call |-> call, bindings |-> bindings, cur |-> cur, heap |-> heap,
     modules |-> modules, asm |-> asm, trace |-> trace]

\* The result of running a piece of code: the state, the exception that
\* propagates out of it (NoErr on normal return) and its return value.
R(s, exc, ret) == [s |-> s, exc |-> exc, ret |-> ret]

NoBinding == [binary |-> 0, lib |-> 0]

\* One history entry.
Ev(s, id, in, ev, err, n, path) ==
    [id |-> id, ev |-> ev, err |-> err, n |-> n, path |-> path,
     binary |-> s.bindings[id].binary, lib |-> s.bindings[id].lib,
     cur |-> s.cur, async |-> in.async]

Log(s, id, in, ev, err, n, path) ==
    [s EXCEPT !.trace = Append(@, Ev(s, id, in, ev, err, n, path))]

\* ------------------------------------------------------------------ callbacks
\* The completion callback of a call (lines 200-201, 243-244): the caller's
\* function, or rethrow (lines 91-93) when none was given.  n is the second
\* argument: the spec index for find, the binding (call id) for init, 0 for
\* none.
Callback(s, id, in, err, n) ==
    LET s1 == Log(s, id, in, "callback", err, n, NoPath)
        kind == s.call[id].cb
    IN  CASE kind = "none" -> R(s1, err, 0)
          [] kind = "ok" -> R(s1, NoErr, 0)
          [] OTHER -> R(s1, CallbackError, 0)

Put(m, k, v) == [x \in DOMAIN m \cup {k} |-> IF x = k THEN v ELSE m[x]]

\* ------------------------------------------------------------------ initAsm
\* Mutant of Bootstrap: the return after callback(err) is missing, so
\* success is reported as well.
Bootstrap_NoReturn(s, id, in) ==
    IF in.ccall = "throws"
    THEN LET c == Callback(Log(s, id, in, "ccall", CcallError, 0, NoPath),
                           id, in, CcallError, 0)
         IN  IF c.exc # NoErr THEN c ELSE Callback(c.s, id, in, NoErr, id)
    ELSE Callback(Log(s, id, in, "ccall", NoErr, 0, NoPath), id, in, NoErr, id)

\* Mutant of Bootstrap: success is reported before nbind_init is called.
Bootstrap_ReportFirst(s, id, in) ==
    LET c == Callback(s, id, in, NoErr, id)
    IN  IF c.exc # NoErr THEN c
        ELSE IF in.ccall = "throws"
        THEN Callback(Log(c.s, id, in, "ccall", CcallError, 0, NoPath),
                      id, in, CcallError, 0)
        ELSE R(Log(c.s, id, in, "ccall", NoErr, 0, NoPath), NoErr, 0)

\* The bootstrap of the wrapped hook (lines 284-291): lib.ccall('nbind_init')
\* in a try block; callback(err) and return when it raises, else
\* callback(null, binding).
Bootstrap(s, id, in) ==
    IF in.ccall = "throws"
    THEN Callback(Log(s, id, in, "ccall", CcallError, 0, NoPath), id, in, CcallError, 0)
    ELSE Callback(Log(s, id, in, "ccall", NoErr, 0, NoPath), id, in, NoErr, id)

RECURSIVE RunWrapped(_, _, _, _, _)
\* The function initAsm installs as lib.onRuntimeInitialized (lines 281-292)
\* for binding id; orig is the hook it replaced ("" for none) and depth the
\* number of times initAsm wrapped the hook of this lib.
RunWrapped(s, id, orig, depth, in) ==
    LET inner ==
            IF depth > 1 THEN RunWrapped(s, id, orig, depth - 1, in)
            ELSE IF orig = "" THEN R(s, NoErr, 0)
            ELSE R(Log(s, id, in, "origHook", NoErr, 0, NoPath),
                   IF in.hook = "throws" THEN HookError ELSE NoErr, 0)
    IN  IF inner.exc # NoErr THEN inner ELSE Bootstrap(inner.s, id, in)

\* The artifact invokes Module.onRuntimeInitialized, Module being heap
\* object obj.
FireHook(s, obj, in) ==
    LET m == s.heap[obj]
    IN  IF "onRuntimeInitialized" \notin DOMAIN m THEN R(s, NoErr, 0)
        ELSE LET h == m["onRuntimeInitialized"]
             IN  IF h.tag # "wrappedReady" THEN R(s, NoErr, 0)
                 ELSE RunWrapped(Log(s, h.id, in, "ready", NoErr, 0, NoPath),
                                 h.id, h.orig, h.depth, in)

Cached(s, path) == \E m \in s.modules : m.path = path
CacheValue(s, path) == (CHOOSE m \in s.modules : m.path = path).val

\* getLib (lines 85-87).
getLib(s) == s.bindings[s.cur].lib

\* The names of the auxiliary files an asm.js artifact asks
\* Module.locateFile for while it is evaluated: a plain name, a name in a
\* subdirectory and an absolute name.
AuxNames == << <<"nbind.js.mem">>, <<"data", "aux.bin">>, <<"/", "abs", "aux.bin">> >>

\* What a locateFile hook of the caller answers: opaque, tagged as the
\* caller's.
UserLocate(name) == <<"userLocate">> \o name

\* The function initAsm installs as lib.locateFile when the caller gave
\* none (lines 275-277), for binding id; binding.binary.path is read when
\* the function is called.
DefaultLocate(s, id, name) ==
    PathResolve(<< DirName(s.call[id].specPath[s.bindings[id].binary]), name >>)

RECURSIVE LocateFiles(_, _, _, _, _)
\* The artifact, evaluated on behalf of call id, calls Module.locateFile
\* for its auxiliary files from the i-th on, Module being heap object obj.
LocateFiles(s, id, obj, in, i) ==
    IF i > Len(AuxNames) \/ "locateFile" \notin DOMAIN s.heap[obj] THEN s
    ELSE LET h == s.heap[obj]["locateFile"]
             file == IF h.tag = "defaultLocate"
                     THEN DefaultLocate(s, h.id, AuxNames[i])
                     ELSE UserLocate(AuxNames[i])
         IN  LocateFiles(Log(s, id, in, "locateFile", NoErr, i, file),
                         id, obj, in, i + 1)

\* require(binding.binary.path) of an asm.js artifact (line 297): a cached
\* module is not evaluated again; otherwise the artifact runs, takes its
\* Module object from getLib(), locates its auxiliary files and fires the
\* runtime-ready hook during the load (in.asm = "sync") or leaves it to a
\* later turn ("async").
RequireAsm(s, id, path, in) ==
    IF Cached(s, path) THEN R(s, NoErr, CacheValue(s, path))
    ELSE IF in.asm = "throws" THEN R(s, RequireError, 0)
    ELSE LET Module == getLib(s)
             val == [type |-> "object", ref |-> Module]
             s1 == Log(s, id, in, "getLib", NoErr, Module, path)
             s2 == LocateFiles(
                      [s1 EXCEPT
                         !.modules = @ \cup {[path |-> path, val |-> val]},
                         !.asm = Append(@, [path |-> path, lib |-> Module,
                                            sync |-> in.asm = "sync", fires |-> 0])],
                      id, Module, in, 1)
         IN  IF in.asm = "sync"
             THEN LET f == FireHook(s2, Module, in)
                  IN  IF f.exc = NoErr THEN R(f.s, NoErr, val)
                      ELSE R([f.s EXCEPT !.modules =
                                 {m \in @ : m.path # path}], f.exc, 0)
             ELSE R(s2, NoErr, val)

\* Mutant of initAsm: the binding is published, the artifact is loaded,
\* and only then are the two hooks installed.
initAsm_HooksAfterLoad(s, id, in) ==
    LET lib == s.bindings[id].lib
        path == s.call[id].specPath[s.bindings[id].binary]
        r == RequireAsm(Log([s EXCEPT !.cur = id], id, in, "load", NoErr, 0, path),
                        id, path, in)
        m == r.s.heap[lib]
        m1 == IF "locateFile" \in DOMAIN m THEN m
              ELSE Put(m, "locateFile",
                       [tag |-> "defaultLocate", id |-> id, orig |-> "", depth |-> 0])
        had == "onRuntimeInitialized" \in DOMAIN m
        wrapped == [tag |-> "wrappedReady", id |-> id,
                    orig |-> IF had THEN m["onRuntimeInitialized"].tag ELSE "",
                    depth |-> 1]
    IN  R([r.s EXCEPT !.heap[lib] = Put(m1, "onRuntimeInitialized", wrapped)],
          r.exc, r.ret)

\* Mutant of initAsm: the slot is written only while it is empty.
initAsm_KeepSlot(s, id, in) ==
    LET lib == s.bindings[id].lib
        m == s.heap[lib]
        m1 == IF "locateFile" \in DOMAIN m THEN m
              ELSE Put(m, "locateFile",
                       [tag |-> "defaultLocate", id |-> id, orig |-> "", depth |-> 0])
        had == "onRuntimeInitialized" \in DOMAIN m
        old == m["onRuntimeInitialized"]
        rewrap == had /\ old.tag = "wrappedReady"
        wrapped == [tag |-> "wrappedReady", id |-> id,
                    orig |-> IF ~had THEN "" ELSE IF rewrap THEN old.orig ELSE old.tag,
                    depth |-> IF rewrap THEN old.depth + 1 ELSE 1]
        s1 == [s EXCEPT !.heap[lib] = Put(m1, "onRuntimeInitialized", wrapped),
                        !.cur = IF @ = 0 THEN id ELSE @]
        path == s.call[id].specPath[s.bindings[id].binary]
    IN  RequireAsm(Log(s1, id, in, "load", NoErr, 0, path), id, path, in)

\* Mutant of initAsm: the default file-location hook is installed over
\* whatever the exports had.
initAsm_AlwaysDefault(s, id, in) ==
    LET lib == s.bindings[id].lib
        m == s.heap[lib]
        m1 == Put(m, "locateFile",
                  [tag |-> "defaultLocate", id |-> id, orig |-> "", depth |-> 0])
        had == "onRuntimeInitialized" \in DOMAIN m
        old == m["onRuntimeInitialized"]
        rewrap == had /\ old.tag = "wrappedReady"
        wrapped == [tag |-> "wrappedReady", id |-> id,
                    orig |-> IF ~had THEN "" ELSE IF rewrap THEN old.orig ELSE old.tag,
                    depth |-> IF rewrap THEN old.depth + 1 ELSE 1]
        s1 == [s EXCEPT !.heap[lib] = Put(m1, "onRuntimeInitialized", wrapped),
                        !.cur = id]
        path == s.call[id].specPath[s.bindings[id].binary]
    IN  RequireAsm(Log(s1, id, in, "load", NoErr, 0, path), id, path, in)

\* initAsm (lines 269-298).
initAsm(s, id, in) ==
    LET lib == s.bindings[id].lib
        m == s.heap[lib]
        m1 == IF "locateFile" \in DOMAIN m THEN m
              ELSE Put(m, "locateFile",
                       [tag |-> "defaultLocate", id |-> id, orig |-> "", depth |-> 0])
        had == "onRuntimeInitialized" \in DOMAIN m
        old == m["onRuntimeInitialized"]
        rewrap == had /\ old.tag = "wrappedReady"
        wrapped == [tag |-> "wrappedReady", id |-> id,
                    orig |-> IF ~had THEN "" ELSE IF rewrap THEN old.orig ELSE old.tag,
                    depth |-> IF rewrap THEN old.depth + 1 ELSE 1]
        s1 == [s EXCEPT !.heap[lib] = Put(m1, "onRuntimeInitialized", wrapped),
                        !.cur = id]
        path == s.call[id].specPath[s.bindings[id].binary]
    IN  RequireAsm(Log(s1, id, in, "load", NoErr, 0, path), id, path, in)

\* ------------------------------------------------------------------ initNode
\* require(binding.binary.path) of a compiled addon (line 307).
RequireAddon(s, id, path, in) ==
    IF Cached(s, path) THEN R(s, NoErr, CacheValue(s, path))
    ELSE IF in.addon = "throws" THEN R(s, RequireError, 0)
    ELSE LET isObj == in.addon = "object"
             ref == Len(s.heap) + 1
             val == [type |-> in.addon, ref |-> IF isObj THEN ref ELSE 0]
         IN  R([s EXCEPT
                  !.heap = IF isObj THEN Append(@, AddonExports) ELSE @,
                  !.modules = @ \cup {[path |-> path, val |-> val]}],
               NoErr, val)

RECURSIVE CopyKeys_KeepExisting(_, _, _)
\* Mutant of CopyKeys: a key the binding's mapping already has is kept.
CopyKeys_KeepExisting(dst, src, keys) ==
    IF keys = {} THEN dst
    ELSE LET k == CHOOSE x \in keys : TRUE
         IN  CopyKeys_KeepExisting(IF k \in DOMAIN dst THEN dst ELSE Put(dst, k, src[k]),
                                   src, keys \ {k})

RECURSIVE CopyKeys(_, _, _)
\* Object.keys(lib).forEach(key => binding.lib[key] = lib[key]) (lines 314-316)
CopyKeys(dst, src, keys) ==
    IF keys = {} THEN dst
    ELSE LET k == CHOOSE x \in keys : TRUE
         IN  CopyKeys(Put(dst, k, src[k]), src, keys \ {k})

\* Mutant of initNode: the loaded module's mapping itself becomes the
\* binding's exports.
initNode_Alias(s, id, in) ==
    LET path == s.call[id].specPath[s.bindings[id].binary]
        r == RequireAddon(Log(s, id, in, "load", NoErr, 0, path), id, path, in)
        lib == r.ret
    IN  IF r.exc # NoErr THEN r
        ELSE IF Falsy(lib) \/ TypeOf(lib) # "object"
        THEN Callback(r.s, id, in, LoadError, 0)
        ELSE Callback([r.s EXCEPT !.bindings[id].lib = lib.ref], id, in, NoErr, id)

\* Mutant of initNode: only an absent value is refused; a value that is not
\* an object is reported as a loaded addon.
initNode_NoTypeCheck(s, id, in) ==
    LET path == s.call[id].specPath[s.bindings[id].binary]
        r == RequireAddon(Log(s, id, in, "load", NoErr, 0, path), id, path, in)
        lib == r.ret
        dst == r.s.bindings[id].lib
    IN  IF r.exc # NoErr THEN r
        ELSE IF Falsy(lib)
        THEN Callback(r.s, id, in, LoadError, 0)
        ELSE IF TypeOf(lib) # "object"
        THEN Callback(r.s, id, in, NoErr, id)
        ELSE Callback(
                [r.s EXCEPT !.heap[dst] =
                    CopyKeys(@, r.s.heap[lib.ref], DOMAIN r.s.heap[lib.ref])],
                id, in, NoErr, id)

\* initNode (lines 302-319).
initNode(s, id, in) ==
    LET path == s.call[id].specPath[s.bindings[id].binary]
        r == RequireAddon(Log(s, id, in, "load", NoErr, 0, path), id, path, in)
        lib == r.ret
        dst == r.s.bindings[id].lib
    IN  IF r.exc # NoErr THEN r
        ELSE IF Falsy(lib) \/ TypeOf(lib) # "object"
        THEN Callback(r.s, id, in, LoadError, 0)
        ELSE Callback(
                [r.s EXCEPT !.heap[dst] =
                    CopyKeys(@, r.s.heap[lib.ref], DOMAIN r.s.heap[lib.ref])],
                id, in, NoErr, id)

\* ------------------------------------------------------------------ init
\* Mutant of InitClosure: the binding is passed along with the error.
InitClosure_BindingOnError(s, id, in, err, k) ==
    IF err # NoErr THEN Callback(s, id, in, err, id)
    ELSE LET preset == s.call[id].preset
             fresh == Len(s.heap) + 1
             s1 == [s EXCEPT
                      !.heap = IF preset = 0 THEN Append(@, NoMapping) ELSE @,
                      !.bindings[id] =
                          [binary |-> k,
                           lib |-> IF preset = 0 THEN fresh ELSE preset]]
         IN  IF SpecList[k].type = "emcc"
             THEN initAsm(s1, id, in)
             ELSE initNode(s1, id, in)

\* The callback init passes to find (lines 248-262); k is the spec found.
InitClosure(s, id, in, err, k) ==
    IF err # NoErr THEN Callback(s, id, in, err, 0)
    ELSE LET preset == s.call[id].preset
             fresh == Len(s.heap) + 1
             s1 == [s EXCEPT
                      !.heap = IF preset = 0 THEN Append(@, NoMapping) ELSE @,
                      !.bindings[id] =
                          [binary |-> k,
                           lib |-> IF preset = 0 THEN fresh ELSE preset]]
         IN  IF SpecList[k].type = "emcc"
             THEN initAsm(s1, id, in)
             ELSE initNode(s1, id, in)

\* ------------------------------------------------------------------ find
\* require.resolve (lines 146, 167): the file name a request resolves to,
\* or a throw (ok = FALSE) when the file system has none.
RequireResolve(request) ==
    LET file == PathResolve(<<request>>)
    IN  IF file \in fs THEN [ok |-> TRUE, path |-> file]
        ELSE [ok |-> FALSE, path |-> NoPath]

\* The callback findCompiledModule was given: the caller's for find
\* (line 207), init's closure for init (line 248).
FindCb(s, id, in, err, k) ==
    IF s.call[id].kind = "find" THEN Callback(s, id, in, err, k)
    ELSE InitClosure(s, id, in, err, k)

\* History: the requests passed to require.resolve (lines 146, 167), in
\* order, whether they resolved or not.
Probe(s, id, p) == [s EXCEPT !.call[id].probes = Append(@, p)]

\* Mutant of Push: the failed path is put in front of the list.
Push_Unshift(s, id, p) == [s EXCEPT !.call[id].tries = <<p>> \o @]

\* resolvedList.push(path) (lines 152, 169)
Push(s, id, p) == [s EXCEPT !.call[id].tries = Append(@, p)]
\* spec.path = path (lines 146, 167)
SetPath(s, id, k, p) == [s EXCEPT !.call[id].specPath[k] = p]

RECURSIVE FastPath(_, _, _, _)
\* The first loop of findCompiledModule (lines 143-155), from spec k on.
\* ret is the spec returned, 0 when the loop ends without returning.
FastPath(s, id, in, k) ==
    IF k > NumSpecs THEN R(s, NoErr, 0)
    ELSE IF ExtName(s.call[id].basePath) # SpecList[k].ext
    THEN FastPath(s, id, in, k + 1)
    ELSE LET base == s.call[id].basePath
             rr == RequireResolve(base)
         IN  IF ~rr.ok
             THEN FastPath(Push(Probe(s, id, base), id, base), id, in, k + 1)
             ELSE LET c == FindCb(Log(SetPath(Probe(s, id, base), id, k, rr.path),
                                      id, in, "resolved", NoErr, k, base),
                                  id, in, NoErr, k)
                  IN  IF c.exc = NoErr THEN R(c.s, NoErr, k)
                      ELSE FastPath(Push(c.s, id, base), id, in, k + 1)

RECURSIVE DirSearch(_, _, _, _)
\* The second loop of findCompiledModule and its end (lines 159-188); n
\* counts the candidates already tried, spec by spec and template by
\* template.  ret is the spec returned, 0 for null.
DirSearch(s, id, in, n) ==
    IF n = NumSpecs * NumTemplates
    THEN LET c == FindCb(s, id, in, LocateError(s.call[id].tries), 0)
         IN  R(c.s, c.exc, 0)
    ELSE LET k == (n \div NumTemplates) + 1
             t == (n % NumTemplates) + 1
             pathParts == makeModulePathList(s.call[id].basePath, SpecList[k].name)[t]
             resolvedPath == PathResolve(pathParts)
             rr == RequireResolve(resolvedPath)
         IN  IF ~rr.ok
             THEN DirSearch(Push(Probe(s, id, resolvedPath), id, resolvedPath),
                            id, in, n + 1)
             ELSE LET c == FindCb(Log(SetPath(Probe(s, id, resolvedPath), id, k, rr.path),
                                      id, in, "resolved", NoErr, k, resolvedPath),
                                  id, in, NoErr, k)
                  IN  R(c.s, c.exc, IF c.exc = NoErr THEN k ELSE 0)

\* findCompiledModule (lines 133-189).
findCompiledModule(s, id, in) ==
    LET f == FastPath(s, id, in, 1)
    IN  IF f.ret # 0 THEN f ELSE DirSearch(f.s, id, in, 0)

\* A call record: the arguments find/init were given (a basePath that was
\* not given is process.cwd(), line 204), the locals of
\* findCompiledModule (spec.path of the two specs, resolvedList), the
\* requests it passed to require.resolve (probes) and, once
\* the call is over, what findCompiledModule returned (found: a spec, 0 for
\* null), what the call returned (ret: the spec for find, the binding for
\* init, 0 for nothing) and what it raised (exc).
NewCall(kind, cb, preset, base) ==
    [kind |-> kind, cb |-> cb, preset |-> preset,
     basePath |-> IF base # NoPath THEN base ELSE Cwd,
     specPath |-> [k \in 1..NumSpecs |-> NoPath], tries |-> <<>>, probes |-> <<>>,
     found |-> 0, ret |-> 0, exc |-> NoErr, done |-> FALSE]

Finish(r, id) ==
    [r.s EXCEPT !.call[id].found = r.ret,
                !.call[id].ret = IF r.exc # NoErr THEN 0
                                 ELSE IF r.s.call[id].kind = "find" THEN r.ret ELSE id,
                !.call[id].exc = r.exc,
                !.call[id].done = TRUE]

\* find (lines 199-209).
find(s, in) ==
    LET id == Len(s.call) + 1
        s0 == [s EXCEPT !.call = Append(@, NewCall("find", in.cb, 0, in.base)),
                        !.bindings = Append(@, NoBinding)]
    IN  Finish(findCompiledModule(s0, id, in), id)

\* Mutant of init: the preset is stored in the Binding when the Binding is
\* created, before the search.
init_EagerLib(s, in) ==
    LET id == Len(s.call) + 1
        obj == Len(s.heap) + 1
        s0 == [s EXCEPT
                 !.heap = IF in.preset.given THEN Append(@, in.preset.map) ELSE @,
                 !.call = Append(@, NewCall("init", in.cb,
                                            IF in.preset.given THEN obj ELSE 0,
                                            in.base)),
                 !.bindings = Append(@, [binary |-> 0,
                                         lib |-> IF in.preset.given THEN obj ELSE 0])]
    IN  Finish(findCompiledModule(s0, id, in), id)

\* init (lines 238-265).  A preset given by the caller is an object of the
\* caller's; the Binding is created with no field set.
init(s, in) ==
    LET id == Len(s.call) + 1
        obj == Len(s.heap) + 1
        s0 == [s EXCEPT
                 !.heap = IF in.preset.given THEN Append(@, in.preset.map) ELSE @,
                 !.call = Append(@, NewCall("init", in.cb,
                                            IF in.preset.given THEN obj ELSE 0,
                                            in.base)),
                 !.bindings = Append(@, NoBinding)]
    IN  Finish(findCompiledModule(s0, id, in), id)

\* ------------------------------------------------------------------ inputs
\* What the environment does within one turn: the caller's callback kind and
\* preset, what require of an addon yields, when an asm.js artifact fires
\* its hook, and whether nbind_init and the caller's hook raise.  Inputs
\* that differ only in a component the turn cannot read are left out.
SyncInputs(kind) ==
    LET has(ext) == kind = "init" /\ \E p \in fs : ExtName(p) = ext
        hooked(pre) == "onRuntimeInitialized" \in DOMAIN pre.map
    IN  { [base |-> basePath, cb |-> cb, preset |-> pre, addon |-> ad, asm |-> am,
           ccall |-> cc, hook |-> hk, async |-> FALSE] :
            cb \in CallbackKinds,
            pre \in IF kind = "init" THEN Presets ELSE {p \in Presets : ~p.given},
            ad \in IF has(".node") THEN AddonKinds ELSE {"object"},
            am \in IF has(".js") THEN {"sync", "async", "throws"} ELSE {"async"},
            cc \in {"ok", "throws"}, hk \in {"ok", "throws"} }
        \ { in \in [base : {basePath}, cb : CallbackKinds, preset : Presets,
                    addon : AddonKinds,
                    asm : {"sync", "async", "throws"}, ccall : {"ok", "throws"},
                    hook : {"ok", "throws"}, async : {FALSE}] :
               \/ in.asm # "sync" /\ in.ccall = "throws"
               \/ (in.asm # "sync" \/ ~hooked(in.preset)) /\ in.hook = "throws" }

AsyncInputs(obj) ==
    LET h == heap[obj]["onRuntimeInitialized"]
    IN  { [base |-> NoPath, cb |-> "", preset |-> CHOOSE p \in Presets : ~p.given,
           addon |-> "",
           asm |-> "", ccall |-> cc, hook |-> hk, async |-> TRUE] :
            cc \in {"ok", "throws"},
            hk \in IF h.orig # "" THEN {"ok", "throws"} ELSE {"ok"} }

\* ------------------------------------------------------------------ actions
RECURSIVE KSubsets(_, _)
\* the subsets of U with at most n elements
KSubsets(U, n) ==
    IF n = 0 THEN {{}}
    ELSE LET prev == KSubsets(U, n - 1)
         IN  prev \cup {S \cup {x} : S \in prev, x \in U}

\* Every file name a call with this basePath can ask require.resolve for.
Candidates(base) ==
    {PathResolve(<<base>>)} \cup
    {PathResolve(makeModulePathList(base, SpecList[k].name)[t]) :
        k \in 1..NumSpecs, t \in 1..NumTemplates}

Init ==
    /\ basePath \in Roots \cup {NoPath}
    /\ fs \in KSubsets(Candidates(IF basePath # NoPath THEN basePath ELSE Cwd),
                       MaxFiles)
    /\ call = <<>>
    /\ bindings = <<>>
    /\ cur = 0
    /\ heap = <<>>
    /\ modules = {}
    /\ asm = <<>>
    /\ trace = <<>>
    /\ turns = 0

Commit(s) ==
    /\ call' = s.call
    /\ bindings' = s.bindings
    /\ cur' = s.cur
    /\ heap' = s.heap
    /\ modules' = s.modules
    /\ asm' = s.asm
    /\ trace' = s.trace

\* The caller calls find(basePath, cb).
CallFind ==
    /\ call = <<>>
    /\ \E in \in SyncInputs("find") : Commit(find(State, in))
    /\ UNCHANGED <<basePath, fs, turns>>

\* The caller calls init(basePath, lib, cb).
CallInit ==
    /\ call = <<>>
    /\ \E in \in SyncInputs("init") : Commit(init(State, in))
    /\ UNCHANGED <<basePath, fs, turns>>

\* In a later turn, an asm.js artifact fires Module.onRuntimeInitialized.
RuntimeReady ==
    /\ \E i \in 1..Len(asm) : \E in \in AsyncInputs(asm[i].lib) :
          /\ asm[i].fires < MaxFires
          /\ LET r == FireHook([State EXCEPT !.asm[i].fires = @ + 1], asm[i].lib, in)
             IN  Commit(IF r.exc = NoErr THEN r.s
                        ELSE [r.s EXCEPT !.trace =
                                Append(@, [Ev(r.s, 1, in, "uncaught", r.exc, 0, NoPath)
                                             EXCEPT !.id = 0])])
    /\ UNCHANGED <<basePath, fs, turns>>

\* A later mutation of a mapping, recorded in the history with the object
\* it was made through.
Mutate(obj, m) ==
    /\ turns < MaxTurns
    /\ turns' = turns + 1
    /\ heap' = [heap EXCEPT ![obj] = m]
    /\ trace' = Append(trace, [id |-> 0, ev |-> "mutate", err |-> NoErr, n |-> obj,
                               path |-> NoPath, binary |-> 0, lib |-> 0,
                               cur |-> cur, async |-> TRUE])
    /\ UNCHANGED <<basePath, fs, call, bindings, cur, modules, asm>>

\* The events of the call's own turn, in order.
OwnTurn(id) == SelectSeq(trace, LAMBDA e : e.id = id /\ ~e.async)

\* The init call ended by reporting success for a compiled addon: the last
\* thing it did was to hand the binding, loaded from an addon, to the
\* completion callback.
AddonSuccess(id) ==
    /\ call[id].kind = "init" /\ call[id].done
    /\ LET last == OwnTurn(id)[Len(OwnTurn(id))]
       IN  /\ last.ev = "callback" /\ last.err = NoErr /\ last.n = id
           /\ SpecList[last.binary].type = "node"

\* The mapping require returned for the addon the binding was loaded from.
LoadedModule(id) ==
    (CHOOSE m \in modules : m.path = call[id].specPath[bindings[id].binary]).val.ref

\* The caller adds, removes or reassigns a key of binding.lib (line 77)
\* of a Binding that init loaded from a compiled addon.
MutateExports ==
    \E id \in 1..Len(call) :
        LET obj == bindings[id].lib
            m == heap[obj]
        IN  /\ AddonSuccess(id)
            /\ \/ Mutate(obj, Put(m, "z", V("z of caller")))
               \/ Mutate(obj, Put(m, "b", V("b of caller")))
               \/ /\ "b" \in DOMAIN m
                  /\ Mutate(obj, [k \in DOMAIN m \ {"b"} |-> m[k]])

\* Another user of the loaded addon reassigns a key of the mapping that
\* require returned (line 307).
MutateModule ==
    \E id \in 1..Len(call) :
        /\ AddonSuccess(id)
        /\ Mutate(LoadedModule(id), Put(heap[LoadedModule(id)], "b", V("b of loader")))

Next == CallFind \/ CallInit \/ RuntimeReady

Spec == Init /\ [][Next]_vars

\* The loader together with later users of the mappings it produced.
NextMutate == CallInit \/ MutateExports \/ MutateModule

SpecMutate == Init /\ [][NextMutate]_vars

\* ------------------------------------------------------------------ two initialisations
\* The bundle files used when two init calls are made: the working
\* directory's, found by a call without basePath, and those of ./r.js.
Bundles ==
    { PathResolve(<<Cwd, <<"nbind.js">> >>),
      PathResolve(<< <<".", "r.js">> >>),
      PathResolve(<< <<".", "r.js">>, <<"nbind.js">> >>) }

\* The basePath of the second call: none again, or ./r.js.
BundleRoots == { NoPath, <<".", "r.js">> }

\* The first call is made without basePath.
InitTwo ==
    /\ basePath = NoPath
    /\ fs \in KSubsets(Bundles, MaxFiles)
    /\ call = <<>>
    /\ bindings = <<>>
    /\ cur = 0
    /\ heap = <<>>
    /\ modules = {}
    /\ asm = <<>>
    /\ trace = <<>>
    /\ turns = 0

\* The bundle loaded by call id is still waiting for its runtime: it was
\* evaluated and its runtime-ready hook has not fired.
InFlight(id) ==
    /\ call[id].kind = "init" /\ call[id].done
    /\ \E i \in 1..Len(trace) : trace[i].id = id /\ trace[i].ev = "getLib"
    /\ \A i \in 1..Len(trace) : trace[i].id = id => trace[i].ev # "ready"

\* The caller calls init a second time, with a basePath of its choice,
\* while the bundle of the first call is waiting for its runtime.
CallInitSecond ==
    /\ Len(call) = 1 /\ InFlight(1)
    /\ \E b \in BundleRoots :
          /\ basePath' = b
          /\ \E in \in SyncInputs("init") :
                Commit(init(State, [in EXCEPT !.base = b]))
    /\ UNCHANGED <<fs, turns>>

NextTwo == CallInit \/ CallInitSecond \/ RuntimeReady

SpecTwo == InitTwo /\ [][NextTwo]_vars

\* ------------------------------------------------------------------ history
CallIds == 1..Len(call)

\* The successful require.resolve attempts of a call, in order; n is the
\* spec whose path was set, path the request.
Resolved(id) == SelectSeq(trace, LAMBDA e : e.id = id /\ e.ev = "resolved")

\* The invocations of the call's completion callback, in order.
Callbacks(id) == SelectSeq(trace, LAMBDA e : e.id = id /\ e.ev = "callback")

Paths(events) == [i \in 1..Len(events) |-> events[i].path]

\* ------------------------------------------------------------------ the documented search order
\* The order the documentation of the search gives, written out
\* independently of makeModulePathList.
DocNames == <<"nbind.node", "nbind.js">>
DocTemplates ==
    << <<>>, <<"build">>, <<"build", "Debug">>, <<"build", "Release">>,
       <<"out", "Debug">>, <<"Debug">>, <<"out", "Release">>, <<"Release">>,
       <<"build", "default">>,
       <<"compiled", NodeVersion, Platform, Arch>> >>
DocCount == Len(DocNames) * Len(DocTemplates)

DocRoot(base) == IF base[1] = "/" THEN base ELSE Cwd \o Tail(base)
DocEntry(n) == ((n - 1) \div Len(DocTemplates)) + 1
DocCandidate(base, n) ==
    DocRoot(base) \o DocTemplates[((n - 1) % Len(DocTemplates)) + 1]
                  \o <<DocNames[DocEntry(n)]>>
DocCandidates(base) == [n \in 1..DocCount |-> DocCandidate(base, n)]

\* root's extension matches a registry entry / root itself resolves
FastMatches(base) == ExtName(base) \in {".node", ".js"}
FastResolves(base) == FastMatches(base) /\ DocRoot(base) \in fs
FastAttempt(base) == IF FastMatches(base) THEN <<base>> ELSE <<>>

\* the first candidate of the documented order that resolves, 0 for none
FirstHit(base) ==
    IF \E n \in 1..DocCount : DocCandidate(base, n) \in fs
    THEN CHOOSE n \in 1..DocCount :
            /\ DocCandidate(base, n) \in fs
            /\ \A m \in 1..(n - 1) : DocCandidate(base, m) \notin fs
    ELSE 0

\* ------------------------------------------------------------------ C1
\* C1: when the fast path does not succeed, locate settles on the first
\* resolving candidate of the order (registry entry outer, template inner):
\* that entry's path field is the candidate's resolved path, the candidate
\* is the last path probed, it is the descriptor handed on, and it is what
\* locate returns when the callback it calls returns.
C1_FirstCandidateWins ==
    \A id \in CallIds :
        LET c == call[id]
            n == FirstHit(c.basePath)
            k == DocEntry(n)
        IN  (c.done /\ ~FastResolves(c.basePath) /\ n # 0) =>
              /\ c.specPath[k] = DocCandidate(c.basePath, n)
              /\ \A j \in 1..NumSpecs : j # k => c.specPath[j] = NoPath
              /\ c.probes =
                    FastAttempt(c.basePath) \o SubSeq(DocCandidates(c.basePath), 1, n)
              /\ Paths(Resolved(id)) = <<DocCandidate(c.basePath, n)>>
              /\ c.kind = "find" =>
                    /\ Len(Callbacks(id)) = 1
                    /\ Callbacks(id)[1].err = NoErr /\ Callbacks(id)[1].n = k
              /\ c.kind = "init" => bindings[id].binary = k
              /\ c.exc = NoErr => c.found = k

\* C1 witness: root fails on the fast path and the first resolving
\* candidate belongs to the second registry entry; locate returned it.
C1_Witness ==
    \E id \in CallIds :
        /\ call[id].done /\ call[id].kind = "find" /\ call[id].exc = NoErr
        /\ FastMatches(call[id].basePath) /\ ~FastResolves(call[id].basePath)
        /\ FirstHit(call[id].basePath) > Len(DocTemplates) + 1
        /\ call[id].found = 2
        /\ Cardinality(fs) = 2

\* ------------------------------------------------------------------ C2
DebugPath(base, e) == DocRoot(base) \o <<"build", "Debug", DocNames[e]>>
ReleasePath(base, e) == DocRoot(base) \o <<"build", "Release", DocNames[e]>>

\* build/Debug and build/Release of entry e both resolve, root itself does
\* not pass the fast path, and no candidate before the two resolves.
BothBuilt(id, e) ==
    LET base == call[id].basePath
    IN  /\ call[id].done
        /\ ~FastResolves(base)
        /\ DebugPath(base, e) \in fs /\ ReleasePath(base, e) \in fs
        /\ DocCandidate(base, FirstHit(base)) \in
              {DebugPath(base, e), ReleasePath(base, e)}

\* C2 as claimed: with both built, locate settles on the build/Release
\* artifact.
C2_ReleaseChosen ==
    \A id \in CallIds : \A e \in 1..NumSpecs :
        BothBuilt(id, e) =>
            /\ call[id].specPath[e] = ReleasePath(call[id].basePath, e)
            /\ call[id].exc = NoErr => call[id].found = e

\* C2 amended: with both built, locate settles on the build/Debug artifact
\* (build/Debug precedes build/Release in the template order) and
\* build/Release is never probed.
C2_DebugChosen ==
    \A id \in CallIds : \A e \in 1..NumSpecs :
        BothBuilt(id, e) =>
            /\ call[id].specPath[e] = DebugPath(call[id].basePath, e)
            /\ \A i \in 1..Len(call[id].probes) :
                  call[id].probes[i] # ReleasePath(call[id].basePath, e)
            /\ call[id].exc = NoErr => call[id].found = e

\* C2 witness: a finished find with both artifacts of the first entry
\* present that returned the entry with the build/Debug path.
C2_Witness ==
    \E id \in CallIds :
        /\ BothBuilt(id, 1)
        /\ call[id].kind = "find" /\ call[id].found = 1
        /\ call[id].specPath[1] = DebugPath(call[id].basePath, 1)

\* ------------------------------------------------------------------ C3
\* C3: when nothing resolves, locate reports one exhaustion failure whose
\* tries are the fast-path attempt (only when root's extension matches a
\* registry entry) followed by the 20 candidates in order, and whose
\* message lists the same paths in the same order.
C3_ExhaustionListsEveryAttempt ==
    \A id \in CallIds :
        LET c == call[id]
            expected == FastAttempt(c.basePath) \o DocCandidates(c.basePath)
        IN  (c.done /\ ~FastResolves(c.basePath) /\ FirstHit(c.basePath) = 0) =>
              /\ Len(expected) = 20 + (IF FastMatches(c.basePath) THEN 1 ELSE 0)
              /\ c.tries = expected
              /\ Len(Callbacks(id)) = 1
              /\ Callbacks(id)[1].n = 0
              /\ Callbacks(id)[1].err.type = "Error"
              /\ Callbacks(id)[1].err.tries = expected
              /\ Tail(Callbacks(id)[1].err.message) = expected
              /\ c.found = 0

\* C3 witness: an exhausted search from a root with a registry extension:
\* 21 tries, root itself first.
C3_Witness ==
    \E id \in CallIds :
        /\ call[id].done /\ fs = {} /\ FastMatches(call[id].basePath)
        /\ Len(call[id].tries) = 21
        /\ call[id].tries[1] = call[id].basePath
        /\ Len(Callbacks(id)) = 1 /\ Callbacks(id)[1].err.tries = call[id].tries

\* ------------------------------------------------------------------ C4
InitIds == {id \in CallIds : call[id].kind = "init"}

\* C4: the completion callback of an init call is invoked at most once.
C4_CallbackAtMostOnce ==
    \A id \in InitIds : Len(Callbacks(id)) <= 1

\* ------------------------------------------------------------------ C5
\* locate found nothing / the call loaded a compiled addon
LocateFailed(id) ==
    call[id].done /\ Resolved(id) = <<>>
AddonBranch(id) ==
    \E i \in 1..Len(trace) :
        trace[i].id = id /\ trace[i].ev = "load" /\ ExtName(trace[i].path) = ".node"

\* C5: an init call whose locate failed or that took the addon branch has
\* invoked the completion callback when it is over, and every firing of
\* the runtime-ready hook is followed by an invocation of the callback.
C5_CallbackAtLeastOnce ==
    /\ \A id \in InitIds :
          call[id].done /\ (LocateFailed(id) \/ AddonBranch(id)) =>
              Len(Callbacks(id)) >= 1
    /\ \A i \in 1..Len(trace) :
          trace[i].ev = "ready" =>
              \E j \in (i + 1)..Len(trace) :
                  trace[j].ev = "callback" /\ trace[j].id = trace[i].id

\* ------------------------------------------------------------------ C6
Failed(id) == \E i \in 1..Len(Callbacks(id)) : Callbacks(id)[i].err # NoErr

C7_FailureReraised ==
    \A i \in 1..Len(trace) :
        LET e == trace[i]
        IN  (e.ev = "callback" /\ e.err # NoErr /\ call[e.id].cb = "none"
             /\ call[e.id].done) =>
                IF e.async
                THEN i < Len(trace) /\ trace[i + 1].ev = "uncaught"
                     /\ trace[i + 1].err = e.err
                ELSE call[e.id].exc = e.err

\* ------------------------------------------------------------------ C8
\* C8: when nbind_init raises in the runtime-ready hook, the very next thing
\* is the completion callback invoked with that error and no Binding, and
\* the hook does not go on to invoke it with success.
C8_BootstrapFailureReported ==
    \A i \in 1..Len(trace) :
        (trace[i].ev = "ccall" /\ trace[i].err # NoErr) =>
            /\ i < Len(trace)
            /\ trace[i + 1].ev = "callback" /\ trace[i + 1].id = trace[i].id
            /\ trace[i + 1].err = trace[i].err /\ trace[i + 1].n = 0
            /\ i + 1 < Len(trace) =>
                  ~(trace[i + 2].ev = "callback" /\ trace[i + 2].err = NoErr)

\* C8 witness: the artifact was loaded, fired the hook in a later turn,
\* nbind_init raised and the caller's callback got the error, once.
C8_Witness ==
    \E i \in 1..Len(trace) :
        /\ trace[i].ev = "ccall" /\ trace[i].err = CcallError /\ trace[i].async
        /\ i + 1 = Len(trace)
        /\ trace[i + 1].ev = "callback" /\ trace[i + 1].err = CcallError
        /\ call[trace[i].id].cb = "ok"
        /\ Len(Callbacks(trace[i].id)) = 1

\* ------------------------------------------------------------------ C9
GivenPreset == (CHOOSE p \in Presets : p.given).map

\* C9: right after a successful addon init with a preset (before anyone
\* changes a mapping), the exports hold exactly the module's keys with the
\* module's values and the other preset keys with their preset values.
C9_PresetMergedModuleWins ==
    \A id \in CallIds :
        (AddonSuccess(id) /\ call[id].preset # 0 /\ turns = 0) =>
            LET exports == heap[bindings[id].lib]
                module == heap[LoadedModule(id)]
            IN  /\ DOMAIN exports = DOMAIN module \cup DOMAIN GivenPreset
                /\ \A k \in DOMAIN module : exports[k] = module[k]
                /\ \A k \in DOMAIN GivenPreset \ DOMAIN module :
                      exports[k] = GivenPreset[k]

\* C9, off the fast path: the merge is as claimed in every call whose root
\* did not itself resolve as a module.
C9_MergedOffFastPath ==
    \A id \in CallIds :
        (AddonSuccess(id) /\ call[id].preset # 0 /\ turns = 0
           /\ ~FastResolves(call[id].basePath)) =>
            LET exports == heap[bindings[id].lib]
                module == heap[LoadedModule(id)]
            IN  /\ DOMAIN exports = DOMAIN module \cup DOMAIN GivenPreset
                /\ \A k \in DOMAIN module : exports[k] = module[k]
                /\ \A k \in DOMAIN GivenPreset \ DOMAIN module :
                      exports[k] = GivenPreset[k]

\* ------------------------------------------------------------------ C10
\* C10: after a successful addon init, a change made through the binding's
\* exports leaves the loaded module's mapping as it was, and a change made
\* through the loaded module's mapping leaves the binding's exports as
\* they were.
C10_ExportsNotAliased ==
    [][ \A id \in CallIds :
          (AddonSuccess(id) /\ turns' = turns + 1) =>
              LET lib == bindings[id].lib
                  mod == LoadedModule(id)
                  through == trace'[Len(trace')].n
              IN  /\ through = lib => heap'[mod] = heap[mod]
                  /\ through = mod => heap'[lib] = heap[lib]
      ]_vars

\* C10 witness: after a successful addon init the caller has reassigned key
\* b of the binding's exports and the module's mapping still has its own.
C10_Witness ==
    \E id \in CallIds :
        /\ AddonSuccess(id) /\ turns = 1
        /\ trace[Len(trace)].ev = "mutate" /\ trace[Len(trace)].n = bindings[id].lib
        /\ heap[bindings[id].lib]["b"] = V("b of caller")
        /\ heap[LoadedModule(id)]["b"] = V("b of module")

\* ------------------------------------------------------------------ C11
\* the registry entry whose extension root has
FastEntry(base) == CHOOSE k \in 1..Len(DocNames) : ExtName(<<DocNames[k]>>) = ExtName(base)

\* C11: when root's extension is a registry entry's and root itself
\* resolves, locate sets that entry's path to the resolution of root,
\* reports success with that entry, probes nothing but root, and returns
\* the entry.
C11_FastPathSettles ==
    \A id \in CallIds :
        LET c == call[id]
            k == FastEntry(c.basePath)
        IN  (c.done /\ FastResolves(c.basePath)) =>
              /\ c.specPath[k] = DocRoot(c.basePath)
              /\ c.probes = <<c.basePath>>
              /\ Len(Resolved(id)) = 1 /\ Resolved(id)[1].n = k
              /\ c.kind = "find" =>
                    /\ Len(Callbacks(id)) = 1
                    /\ Callbacks(id)[1].err = NoErr /\ Callbacks(id)[1].n = k
              /\ c.exc = NoErr => c.found = k

\* C11, when nothing raises out of the callback locate calls on the fast
\* path (root is then not recorded as tried): the fast path settles as
\* claimed.
C11_SettlesWhenCallbackReturns ==
    \A id \in CallIds :
        LET c == call[id]
            k == FastEntry(c.basePath)
        IN  (c.done /\ FastResolves(c.basePath) /\ c.tries = <<>>) =>
              /\ c.specPath[k] = DocRoot(c.basePath)
              /\ c.probes = <<c.basePath>>
              /\ Len(Resolved(id)) = 1 /\ Resolved(id)[1].n = k
              /\ c.found = k /\ c.exc = NoErr

\* ------------------------------------------------------------------ C12
\* The invocation of init's completion callback at position i of the
\* history hands over locate's exhaustion error.
LocateErrorAt(i) ==
    /\ trace[i].ev = "callback" /\ trace[i].err.type = "Error"
    /\ trace[i].id \in InitIds

\* Nothing was loaded and nothing set for the call when the callback at
\* position i was invoked, and the call ended there.
StoppedAt(i) ==
    LET e == trace[i]
        id == e.id
    IN  /\ e.err = LocateError(call[id].tries)
        /\ e.err.message = << <<"Could not locate the bindings file. Tried:">> >>
                              \o e.err.tries
        /\ e.n = 0
        /\ e.binary = 0 /\ e.lib = 0
        /\ bindings[id] = NoBinding
        /\ \A j \in 1..i : trace[j].id = id => trace[j].ev # "load"
        /\ \A j \in 1..i : trace[j].id = id => trace[j].cur = e.cur
        /\ OwnTurn(id)[Len(OwnTurn(id))] = e
        /\ Len(Callbacks(id)) = 1

\* C12: when locate fails inside init, the completion callback receives
\* locate's error (message and tries as locate built them) and init stops:
\* no artifact is loaded, the Binding's two fields stay unset and the
\* active-binding slot is as it was.
C12_LocateFailureSurfaced ==
    \A i \in 1..Len(trace) :
        (LocateErrorAt(i) /\ call[trace[i].id].done) => StoppedAt(i)

\* C12, when no path resolved during the search: the failure is surfaced
\* as claimed.
C12_SurfacedWhenNothingResolved ==
    \A i \in 1..Len(trace) :
        (LocateErrorAt(i) /\ LocateFailed(trace[i].id)) => StoppedAt(i)

\* ------------------------------------------------------------------ C13
\* The load at position i of the history is the synchronous load of a
\* compiled addon and yielded a value that is absent or not an object.
BadLoadAt(i) ==
    /\ trace[i].ev = "load" /\ ExtName(trace[i].path) = ".node"
    /\ \E m \in modules :
          /\ m.path = trace[i].path
          /\ Falsy(m.val) \/ TypeOf(m.val) # "object"

\* C13: a load of a compiled addon that yields an absent or non-object
\* value is followed at once by the completion callback with the load
\* error and no Binding; nothing of a module is copied into the exports,
\* and the loader does not go on to report success for that load.
C13_BadLoadReported ==
    \A i \in 1..Len(trace) :
        BadLoadAt(i) =>
            LET id == trace[i].id
                exports == heap[trace[i].lib]
            IN  /\ i < Len(trace)
                /\ trace[i + 1].ev = "callback" /\ trace[i + 1].id = id
                /\ trace[i + 1].err = LoadError /\ trace[i + 1].n = 0
                /\ \A k \in DOMAIN AddonExports :
                      k \in DOMAIN exports => exports[k] # AddonExports[k]
                /\ i + 1 < Len(trace) =>
                      ~(trace[i + 2].ev = "callback" /\ trace[i + 2].err = NoErr)

\* C13 witness: require of the addon yielded a function; the caller's
\* callback got the load error, once, and the preset is as it was given.
C13_Witness ==
    \E i \in 1..Len(trace) :
        /\ BadLoadAt(i)
        /\ \E m \in modules : m.path = trace[i].path /\ m.val.type = "function"
        /\ call[trace[i].id].cb = "ok" /\ call[trace[i].id].preset # 0
        /\ Len(Callbacks(trace[i].id)) = 1
        /\ Callbacks(trace[i].id)[1].err = LoadError
        /\ heap[trace[i].lib] = GivenPreset

\* ------------------------------------------------------------------ C14
\* C14: wherever the caller can look at a Binding that init created (at
\* every invocation of the completion callback and of a hook, at every
\* step of a load, when init is over and between turns), its binary field
\* is set exactly when its lib field is.
C14_FieldsSetTogether ==
    /\ \A id \in InitIds : (bindings[id].binary = 0) <=> (bindings[id].lib = 0)
    /\ \A i \in 1..Len(trace) :
          trace[i].id \in InitIds => ((trace[i].binary = 0) <=> (trace[i].lib = 0))

\* C14 witness: a bundle was initialised with a caller's hook; the hook and
\* then the completion callback saw the Binding with both fields set, as
\* it still is.
C14_Witness ==
    \E id \in InitIds : \E i, j \in 1..Len(trace) :
        /\ call[id].done /\ call[id].ret = id
        /\ i < j
        /\ trace[i].id = id /\ trace[i].ev = "origHook"
        /\ trace[i].binary # 0 /\ trace[i].lib # 0
        /\ trace[j].id = id /\ trace[j].ev = "callback" /\ trace[j].n = id
        /\ trace[j].binary # 0 /\ trace[j].lib # 0
        /\ bindings[id].binary # 0 /\ bindings[id].lib # 0

\* ------------------------------------------------------------------ C15
\* The load at position i of the history is that of an asm.js bundle.
BundleLoadAt(i) == trace[i].ev = "load" /\ ExtName(trace[i].path) = ".js"

\* The artifact was evaluated by the load at position i (it was not in the
\* module cache and require did not raise before running it).
EvaluatedAt(i) ==
    /\ BundleLoadAt(i) /\ i < Len(trace)
    /\ trace[i + 1].ev = "getLib" /\ trace[i + 1].path = trace[i].path

\* C15: when the load of a bundle is triggered, the active-binding slot
\* holds the Binding being initialised and its exports carry a
\* file-location hook and the wrapped runtime-ready hook of this Binding;
\* a getLib call made during the load returns this Binding's exports, the
\* artifact's file-location requests during the load are answered, and a
\* runtime-ready hook fired during the load is the wrapped one.
C15_PublishedBeforeLoad ==
    \A i \in 1..Len(trace) :
        BundleLoadAt(i) =>
            LET id == trace[i].id
                exports == heap[trace[i].lib]
            IN  /\ trace[i].cur = id
                /\ "locateFile" \in DOMAIN exports
                /\ "onRuntimeInitialized" \in DOMAIN exports
                /\ exports["onRuntimeInitialized"].tag = "wrappedReady"
                /\ exports["onRuntimeInitialized"].id = id
                /\ EvaluatedAt(i) =>
                      /\ trace[i + 1].id = id /\ trace[i + 1].cur = id
                      /\ trace[i + 1].n = trace[i].lib
                      /\ \A a \in 1..Len(AuxNames) :
                            /\ i + 1 + a <= Len(trace)
                            /\ trace[i + 1 + a].ev = "locateFile"
                            /\ trace[i + 1 + a].n = a
                      /\ \A x \in 1..Len(asm) :
                            (asm[x].path = trace[i].path /\ asm[x].sync) =>
                                /\ i + 2 + Len(AuxNames) <= Len(trace)
                                /\ trace[i + 2 + Len(AuxNames)].ev = "ready"
                                /\ trace[i + 2 + Len(AuxNames)].id = id

\* C15 witness: a bundle fired its runtime-ready hook while it was being
\* loaded, after calling getLib, and the caller's callback got the Binding.
C15_Witness ==
    \E i \in 1..Len(trace) :
        /\ EvaluatedAt(i)
        /\ trace[i + 1].n = bindings[trace[i].id].lib
        /\ \E x \in 1..Len(asm) : asm[x].path = trace[i].path /\ asm[x].sync
        /\ trace[Len(trace)].ev = "callback" /\ trace[Len(trace)].n = trace[i].id
        /\ ~trace[Len(trace)].async
        /\ cur = trace[i].id

\* ------------------------------------------------------------------ C16
\* The getLib call at position i of the history was made by the artifact
\* of the second init call while the bundle of the first was waiting for
\* its runtime.
SecondGetLibAt(i) ==
    /\ trace[i].ev = "getLib" /\ trace[i].id = 2
    /\ \E j \in 1..(i - 1) : trace[j].id = 1 /\ trace[j].ev = "getLib"
    /\ \A j \in 1..(i - 1) : trace[j].id = 1 => trace[j].ev # "ready"

\* C16 as claimed: the getLib call of the second initialisation finds the
\* first initialisation's Binding in the slot.
C16_SecondObservesFirst ==
    \A i \in 1..Len(trace) :
        SecondGetLibAt(i) =>
            /\ trace[i].cur = 1
            /\ trace[i].n = bindings[1].lib

\* C16 amended: the second initialisation has put its own Binding into the
\* slot before its load, so its getLib call finds the second Binding and
\* gets the second Binding's exports; the first Binding is out of the slot
\* from then on.
C16_SecondObservesItself ==
    \A i \in 1..Len(trace) :
        SecondGetLibAt(i) =>
            /\ trace[i].cur = 2
            /\ trace[i].n = trace[i].lib
            /\ trace[i].n # bindings[1].lib
            /\ cur = 2

\* C16 witness: two bundles of different paths were loaded by two init
\* calls, neither has fired its hook, and the second's getLib call found
\* the second Binding.
C16_Witness ==
    \E i \in 1..Len(trace) :
        /\ SecondGetLibAt(i)
        /\ Len(asm) = 2 /\ asm[1].path # asm[2].path
        /\ asm[1].fires = 0 /\ asm[2].fires = 0 /\ ~asm[2].sync
        /\ InFlight(1) /\ InFlight(2)
        /\ trace[i].cur = 2 /\ trace[i].n = bindings[2].lib

\* ------------------------------------------------------------------ C17
\* The event before position i of the history, of the same call.
Before(i, ev) == i > 1 /\ trace[i - 1].ev = ev /\ trace[i - 1].id = trace[i].id

\* C17: on the bundle branch the events of an initialisation come in the
\* order load, runtime-ready hook, the caller's original hook (when the
\* preset had one), bootstrap, completion callback: the hook fires only
\* after the load was triggered, the original hook is the first thing the
\* wrapped hook does, the bootstrap comes right after it (after the firing
\* when there is no original hook, or after the run of an inner wrapper),
\* and a success that is not that of an addon load comes right after a
\* bootstrap that returned.
C17_BundleEventOrder ==
    \A i \in 1..Len(trace) :
        LET e == trace[i]
        IN  /\ e.ev = "ready" =>
                  /\ \E k \in 1..(i - 1) : trace[k].id = e.id /\ BundleLoadAt(k)
                  /\ i < Len(trace) /\ trace[i + 1].id = e.id
                  /\ trace[i + 1].ev =
                        IF call[e.id].preset # 0 THEN "origHook" ELSE "ccall"
            /\ e.ev = "origHook" => Before(i, "ready")
            /\ e.ev = "ccall" =>
                  \/ Before(i, IF call[e.id].preset # 0 THEN "origHook" ELSE "ready")
                  \/ Before(i, "callback") /\ Before(i - 1, "ccall")
            /\ (e.ev = "callback" /\ e.id \in InitIds /\ e.err = NoErr
                  /\ ~(Before(i, "load") /\ ~BundleLoadAt(i - 1))) =>
                  /\ Before(i, "ccall") /\ trace[i - 1].err = NoErr
                  /\ \E k \in 1..(i - 1) : trace[k].id = e.id /\ trace[k].ev = "ready"

\* C17 witness: a bundle loaded with a caller's hook fired its hook in a
\* later turn: firing, original hook, bootstrap and the one completion
\* callback, with the Binding, are the last four events.
C17_Witness ==
    \E id \in InitIds :
        LET n == Len(trace)
        IN  /\ n > 4 /\ call[id].preset # 0
            /\ \A k \in (n - 3)..n : trace[k].id = id /\ trace[k].async
            /\ trace[n - 3].ev = "ready" /\ trace[n - 2].ev = "origHook"
            /\ trace[n - 1].ev = "ccall" /\ trace[n - 1].err = NoErr
            /\ trace[n].ev = "callback" /\ trace[n].n = id
            /\ Len(Callbacks(id)) = 1
            /\ \E k \in 1..(n - 4) : trace[k].id = id /\ BundleLoadAt(k)

\* ------------------------------------------------------------------ C18
\* C18: within one locate call a path is assigned to a descriptor at most
\* once, and the request that resolved is the last one made: nothing is
\* probed and no path field is assigned after it.
C18_PathAssignedOnce ==
    \A id \in CallIds :
        LET c == call[id]
        IN  (c.done /\ Resolved(id) # <<>>) =>
              /\ Len(Resolved(id)) = 1
              /\ c.probes[Len(c.probes)] = Resolved(id)[1].path
              /\ \A i \in 1..(Len(c.probes) - 1) : c.probes[i] # Resolved(id)[1].path
              /\ c.specPath[Resolved(id)[1].n] = PathResolve(<<Resolved(id)[1].path>>)

\* C18, when nothing raises out of the callback locate calls on the fast
\* path (root is then not recorded as tried): the path is assigned once and
\* the search ends there.
C18_AssignedOnceWhenCallbackReturns ==
    \A id \in CallIds :
        LET c == call[id]
        IN  (c.done /\ Resolved(id) # <<>>
               /\ \A i \in 1..Len(c.tries) : c.tries[i] # Resolved(id)[1].path) =>
              /\ Len(Resolved(id)) = 1
              /\ c.probes[Len(c.probes)] = Resolved(id)[1].path
              /\ c.specPath[Resolved(id)[1].n] = PathResolve(<<Resolved(id)[1].path>>)

\* ------------------------------------------------------------------ C19
\* A requested name resolved against the directory of an artifact path,
\* written out independently of PathResolve: an absolute name stands for
\* itself, any other is appended to the directory.
AgainstDirOf(artifact, name) ==
    IF name[1] = "/" THEN name
    ELSE SubSeq(artifact, 1, Len(artifact) - 1) \o name

\* C19: on the bundle branch a file-location hook given in the preset is
\* still the one on the exports and answers the artifact's requests; with
\* no preset the default is installed, and it answers every requested name
\* with that name resolved against the directory of the resolved artifact
\* path.
C19_LocateFileHook ==
    /\ \A i \in 1..Len(trace) :
          BundleLoadAt(i) =>
              LET given == call[trace[i].id].preset # 0
                  hook == heap[trace[i].lib]["locateFile"]
              IN  /\ given => hook = GivenPreset["locateFile"]
                  /\ ~given => hook.tag = "defaultLocate" /\ hook.id = trace[i].id
    /\ \A i \in 1..Len(trace) :
          trace[i].ev = "locateFile" =>
              LET a == trace[i].n
                  load == trace[i - a - 1]
              IN  /\ BundleLoadAt(i - a - 1) /\ load.id = trace[i].id
                  /\ trace[i].path =
                        IF call[trace[i].id].preset # 0
                        THEN UserLocate(AuxNames[a])
                        ELSE AgainstDirOf(load.path, AuxNames[a])

\* C19 witness: a bundle found under build/ was loaded without a preset and
\* its three requests were answered by the default hook.
C19_Witness ==
    \E i \in 1..Len(trace) :
        /\ BundleLoadAt(i) /\ call[trace[i].id].preset = 0
        /\ trace[i].path = <<"/", "cwd", "build", "nbind.js">>
        /\ i + 4 <= Len(trace)
        /\ trace[i + 2].ev = "locateFile"
        /\ trace[i + 2].path = <<"/", "cwd", "build", "nbind.js.mem">>
        /\ trace[i + 3].path = <<"/", "cwd", "build", "data", "aux.bin">>
        /\ trace[i + 4].path = <<"/", "abs", "aux.bin">>


\* ------------------------------------------------------------------ C20
\* C20: every path in the list of tried paths is one whose resolution
\* failed: no path that resolves is in it, and no probe follows a
\* resolution, whatever the callback or the load does.
C20_TriedPathsFailed ==
    \A id \in CallIds :
        LET c == call[id]
        IN  /\ \A i \in 1..Len(c.tries) : PathResolve(<<c.tries[i]>>) \notin fs
            /\ \A i \in 1..(Len(c.probes) - 1) :
                  PathResolve(<<c.probes[i]>>) \notin fs
            /\ \A i \in 1..Len(Callbacks(id)) :
                  \A j \in 1..Len(Callbacks(id)[i].err.tries) :
                      PathResolve(<<Callbacks(id)[i].err.tries[j]>>) \notin fs

\* C20, for the directory search: no candidate of the search is recorded
\* as tried when it resolved, and the search stops at the first candidate
\* that resolves.
C20_SearchTriesFailed ==
    \A id \in CallIds :
        LET c == call[id]
        IN  /\ \A i \in 1..Len(c.tries) :
                  c.tries[i] # c.basePath => PathResolve(<<c.tries[i]>>) \notin fs
            /\ \A i \in 1..(Len(c.probes) - 1) :
                  c.probes[i] # c.basePath => PathResolve(<<c.probes[i]>>) \notin fs

====
